---- MODULE Spec2Model ----
(***************************************************************************)
(* The collaborative editor's server (src/server/index.js): the room       *)
(* directory, the session map, the socket.io handlers of one connection,   *)
(* the cleanup timers and the REST endpoint that creates rooms.            *)
(*                                                                         *)
(* A string is a sequence of units (UTF-16 code units in the code); a JS   *)
(* Map is a function whose DOMAIN is the set of its keys; Date.now() and   *)
(* new Date() read the clock `now`, counted in ticks of one cleanup delay.  *)
(* Each handler runs to completion (Node's event loop), so each is one     *)
(* action.  A socket that has disconnected stands for the next connection: *)
(* socket.io gives it a fresh id, and nothing refers to the old one.       *)
(***************************************************************************)
EXTENDS Integers, Sequences, FiniteSets, TLC

VARIABLES
    rooms,          \* const rooms = new Map()          roomId -> room
    userSessions,   \* const userSessions = new Map()   socket.id -> {roomId, user}
    adapter,        \* socket.io's rooms: socket.id -> the room names it has joined
    timers,         \* the pending setTimeout callbacks: {roomId, due}
    now,            \* the clock
    handled,        \* the event the server handled last
    sent,           \* the messages that handler emitted: {to, event, data}
    emptySince,     \* history: roomId -> the instant its user set last became empty
    emptyDoc,       \* history: roomId -> document and chat at that instant
    calc,           \* the operation model applied to one content (SpecApply)
    inbox,          \* history: socket.id -> the events it was sent, in order
    applied,        \* history: the number of messages handled
    local,          \* client: socket.id -> the content of its editor
    upstream,       \* client: socket.id -> the operations it has sent, not yet handled
    downstream,     \* client: socket.id -> the operations sent to it, not yet applied
    users,          \* client: socket.id -> the users state of App.tsx
    presence        \* client: socket.id -> the room-joined, user-joined and
                    \* user-left events sent to it, not yet handled

vars == <<rooms, userSessions, adapter, timers, now, handled, sent,
          emptySince, emptyDoc, calc, inbox, applied, local, upstream,
          downstream, users, presence>>

----------------------------------------------------------------------------
(* Bounds of the model *)

MaxLen == 4         \* longest document content the model lets a room reach
MaxEdits == 1       \* edits the directory holds: logged operations, chat
                    \* messages, changed languages and moved cursors
MaxEvents == 4      \* messages handled while the deliveries are recorded
MaxTime == 2        \* last instant of the clock

(* The cleanup delay, setTimeout(..., 3600000), in ticks of 3600000 ms *)
GracePeriod == 1

Conns == {"s1", "s2"}
RoomIds == {<<"r", "o", "o", "m", "-", "a", "l", "p", "h", "a">>, <<"b", "e", "t", "a">>}
Languages == {"javascript", "python"}
Cursors == {[line |-> 3, column |-> 7], [line |-> 1, column |-> 2]}
Messages == {"hi"}

Min(a, b) == IF a <= b THEN a ELSE b
Max(a, b) == IF a >= b THEN a ELSE b

----------------------------------------------------------------------------
(* JavaScript values the handlers use *)

\* Map.prototype.set / delete / has
MapSet(m, k, v) == [x \in (DOMAIN m) \cup {k} |-> IF x = k THEN v ELSE m[x]]
\* a delete that deletes nothing
MapDeleteNothing(m, k) == m
MapDelete(m, k) == [x \in (DOMAIN m) \ {k} |-> m[x]]
MapHas(m, k) == k \in DOMAIN m
EmptyMap == <<>>

\* String.prototype.slice resolves an index: a negative one counts from the
\* end, and the result is clamped to [0, length]
SliceIndex(len, i) == IF i < 0 THEN Max(len + i, 0) ELSE Min(i, len)

\* String.prototype.slice(start, end)
Slice(s, start, end) ==
    LET from == SliceIndex(Len(s), start)
        to == SliceIndex(Len(s), end)
    IN  IF from >= to THEN <<>> ELSE SubSeq(s, from + 1, to)

\* String.prototype.slice(start): to the end of the string
SliceFrom(s, start) ==
    LET from == SliceIndex(Len(s), start)
    IN  IF from >= Len(s) THEN <<>> ELSE SubSeq(s, from + 1, Len(s))

----------------------------------------------------------------------------
(* The operation model *)

\* an operation built one offset further than it was sent
DocumentOperationMoved(type, position, content, length) ==
    [type |-> type, position |-> position + 1, content |-> content,
     length |-> length, timestamp |-> now]

\* new DocumentOperation(type, position, content, length = 0); the uuid is
\* left out, the timestamp is Date.now()
DocumentOperation(type, position, content, length) ==
    [type |-> type, position |-> position, content |-> content,
     length |-> length, timestamp |-> now]

\* the insert branch with after = content.slice(operation.position + 1)
ApplyInsertDropsUnit(content, operation) ==
    LET before == Slice(content, 0, operation.position)
        after == SliceFrom(content, operation.position + 1)
    IN  before \o operation.content \o after

\* an insert that writes over the text at its position
ApplyInsertOverwrites(content, operation) ==
    LET before == Slice(content, 0, operation.position)
        after == SliceFrom(content, Max(operation.position, 0)
                                    + Len(operation.content))
    IN  before \o operation.content \o after

\* if (operation.type === 'insert') { before + operation.content + after }
ApplyInsert(content, operation) ==
    LET before == Slice(content, 0, operation.position)
        after == SliceFrom(content, operation.position)
    IN  before \o operation.content \o after

\* a delete that stops one unit short
ApplyDeleteShort(content, operation) ==
    LET before == Slice(content, 0, operation.position)
        after == SliceFrom(content, operation.position + operation.length - 1)
    IN  before \o after

\* else if (operation.type === 'delete') { before + after }
ApplyDelete(content, operation) ==
    LET before == Slice(content, 0, operation.position)
        after == SliceFrom(content, operation.position + operation.length)
    IN  before \o after

\* "Apply operation to document": any other type leaves the content alone
ApplyOperation(content, operation) ==
    IF operation.type = "insert" THEN ApplyInsert(content, operation)
    ELSE IF operation.type = "delete" THEN ApplyDelete(content, operation)
    ELSE content

----------------------------------------------------------------------------
(* Room management *)

\* the canned welcome text, two units standing for its 74
WelcomeContent == <<"w", "e">>
DefaultLanguage == "javascript"

\* `Room ${roomId.slice(0, 8)}`
DefaultRoomName(roomId) == <<"R", "o", "o", "m", " ">> \o Slice(roomId, 0, 8)

\* createRoom(roomId, name): the room object it stores under roomId;
\* createdAt is left out, nothing reads it
NewRoom(roomId, name) ==
    [id |-> roomId,
     name |-> name,
     document |-> [content |-> WelcomeContent, language |-> DefaultLanguage],
     users |-> EmptyMap,
     operations |-> <<>>,
     chat |-> <<>>,
     lastActivity |-> now]

\* rooms.set(roomId, room): it overwrites whatever is stored under roomId
CreateRoom(rs, roomId, name) == MapSet(rs, roomId, NewRoom(roomId, name))

\* getRoomInfo(roomId) of a room that exists
GetRoomInfo(rs, roomId) ==
    LET room == rs[roomId]
    IN  [id |-> room.id,
         name |-> room.name,
         userCount |-> Cardinality(DOMAIN room.users),
         users |-> {room.users[c] : c \in DOMAIN room.users},
         document |-> room.document,
         lastActivity |-> room.lastActivity]

----------------------------------------------------------------------------
(* socket.io *)

\* socket.to(room) taken for socket.broadcast: every other socket, whatever
\* its room
SocketToAnyRoom(ad, sender, roomId, event, data) ==
    {[to |-> c, event |-> event, data |-> data] : c \in Conns \ {sender}}

\* socket.to(room) taken for io.to(room): the sender is not left out
SocketToEveryone(ad, sender, roomId, event, data) ==
    {[to |-> c, event |-> event, data |-> data] :
        c \in {x \in Conns : roomId \in ad[x]}}

\* socket.to(room).emit(event, data): every socket in the room but the sender
SocketTo(ad, sender, roomId, event, data) ==
    {[to |-> c, event |-> event, data |-> data] :
        c \in {x \in Conns \ {sender} : roomId \in ad[x]}}

\* io.to(room) taken for io.emit: every socket, whatever its room
IoToEveryRoom(ad, roomId, event, data) ==
    {[to |-> c, event |-> event, data |-> data] : c \in Conns}

\* io.to(room).emit(event, data): every socket in the room
IoTo(ad, roomId, event, data) ==
    {[to |-> c, event |-> event, data |-> data] :
        c \in {x \in Conns : roomId \in ad[x]}}

\* socket.emit(event, data): the socket itself
SocketEmit(sender, event, data) ==
    {[to |-> sender, event |-> event, data |-> data]}

----------------------------------------------------------------------------
(* What the model records beside the program's state *)

NoConn == ""
NoRoomId == <<>>
Never == <<>>

\* the event handled last: its name, the socket, the room it resolved and
\* whether the handler went past its guards
Handled(event, c, roomId, ok) ==
    [event |-> event, conn |-> c, roomId |-> roomId, ok |-> ok]

\* a message from a socket without a session, or whose room is gone
Ignored(event, c) == Handled(event, c, NoRoomId, FALSE)

\* one emit call: the event, its payload and the sockets it reaches
Emission(deliveries) ==
    IF deliveries = {} THEN <<>>
    ELSE LET d == CHOOSE x \in deliveries : TRUE
         IN  <<[event |-> d.event, data |-> d.data,
                to |-> {x.to : x \in deliveries}]>>

IsEmpty(rs, r) == MapHas(rs, r) /\ DOMAIN rs[r].users = {}
IsOccupied(rs, r) == MapHas(rs, r) /\ DOMAIN rs[r].users # {}

BecameEmpty(old, new, r) == IsEmpty(new, r) /\ ~IsEmpty(old, r)

NoDoc == [document |-> [content |-> <<>>, language |-> ""], chat |-> <<>>,
          left |-> FALSE]

\* the instant room r's user set became empty, kept while the room is empty
\* or gone and through the step that puts a user in it again
EmptySinceAfter(old, new) ==
    [r \in RoomIds |->
        IF BecameEmpty(old, new, r) THEN <<now>>
        ELSE IF IsOccupied(old, r) THEN Never
        ELSE emptySince[r]]

\* the document and chat log room r held at that instant, and whether a
\* user leaving (not the room's creation) emptied it
EmptyDocAfter(old, new) ==
    [r \in RoomIds |->
        IF BecameEmpty(old, new, r)
        THEN [document |-> new[r].document, chat |-> new[r].chat,
              left |-> MapHas(old, r)]
        ELSE IF IsOccupied(old, r) THEN NoDoc
        ELSE emptyDoc[r]]

RECURSIVE SumOver(_, _)
SumOver(S, f) ==
    IF S = {} THEN 0
    ELSE LET x == CHOOSE y \in S : TRUE
         IN  f[x] + SumOver(S \ {x}, f)

Origin == [line |-> 0, column |-> 0]

\* the edits a room holds
RoomEdits(room) ==
    Len(room.operations) + Len(room.chat)
    + (IF room.document.language # "javascript" THEN 1 ELSE 0)
    + Cardinality({c \in DOMAIN room.users : room.users[c].cursor # Origin})

Edits(rs) == SumOver(DOMAIN rs, [r \in DOMAIN rs |-> RoomEdits(rs[r])])

\* the step stays within the edits and the content length the model follows
Bounded ==
    /\ Edits(rooms') <= MaxEdits
    /\ \A r \in DOMAIN rooms' : Len(rooms'[r].document.content) <= MaxLen

Idle == [stage |-> "idle"]

----------------------------------------------------------------------------
(* The state after `node server/index.js` has started *)

Init ==
    /\ rooms = EmptyMap
    /\ userSessions = EmptyMap
    /\ adapter = [c \in Conns |-> {}]
    /\ timers = {}
    /\ now = 0
    /\ handled = Handled("start", NoConn, NoRoomId, TRUE)
    /\ sent = <<>>
    /\ emptySince = [r \in RoomIds |-> Never]
    /\ emptyDoc = [r \in RoomIds |-> NoDoc]
    /\ calc = Idle
    /\ inbox = [c \in Conns |-> <<>>]
    /\ applied = 0
    /\ local = [c \in Conns |-> <<>>]
    /\ upstream = [c \in Conns |-> <<>>]
    /\ downstream = [c \in Conns |-> <<>>]
    /\ users = [c \in Conns |-> <<>>]
    /\ presence = [c \in Conns |-> <<>>]

----------------------------------------------------------------------------
(* io.on('connection') and its handlers *)

\* the userName each socket's client sends with join-room ("" sends none)
UserNameOf(c) == IF c = "s1" THEN "Alice" ELSE ""
\* name: userName || `User ${Math.floor(Math.random() * 1000)}`
RandomNames == {"User 7"}
\* color: `hsl(${Math.floor(Math.random() * 360)}, 70%, 60%)`
RandomHues == {210}

\* "Create user object"; joinedAt is left out, nothing reads it
NewUser(c, userName, randomName, hue) ==
    [id |-> c,
     name |-> IF userName # "" THEN userName ELSE randomName,
     color |-> hue,
     cursor |-> Origin]

\* join-room without its leave of the previous room
LeavePreviousStays(c) == rooms

\* "Leave previous room if any": the room directory after it
LeavePrevious(c) ==
    IF MapHas(userSessions, c) /\ MapHas(rooms, userSessions[c].roomId)
    THEN [rooms EXCEPT ![userSessions[c].roomId].users = MapDelete(@, c)]
    ELSE rooms

\* join-room creating its room whether or not the directory holds it
CreateAlways(rs, roomId) == CreateRoom(rs, roomId, DefaultRoomName(roomId))

\* "Create room if it doesn't exist"
CreateIfAbsent(rs, roomId) ==
    IF ~MapHas(rs, roomId)
    THEN CreateRoom(rs, roomId, DefaultRoomName(roomId))
    ELSE rs

\* a join that stamps the room and adds no user
AddUserNowhere(rs, roomId, c, user) ==
    [rs EXCEPT ![roomId].lastActivity = now]

\* "Add user to room"
AddUser(rs, roomId, c, user) ==
    [rs EXCEPT ![roomId].users = MapSet(@, c, user),
               ![roomId].lastActivity = now]

\* socket.on('join-room')
JoinRoom(c, roomId, userName) ==
    /\ \E randomName \in RandomNames, hue \in RandomHues :
        LET hasPrev == MapHas(userSessions, c)
            adLeft == [adapter EXCEPT ![c] =
                        @ \ (IF hasPrev THEN {userSessions[c].roomId} ELSE {})]
            userLeft ==
                IF hasPrev /\ MapHas(rooms, userSessions[c].roomId)
                THEN Emission(SocketTo(adLeft, c, userSessions[c].roomId,
                                       "user-left", userSessions[c].user))
                ELSE <<>>
            user == NewUser(c, userName, randomName, hue)
            rs == AddUser(CreateIfAbsent(LeavePrevious(c), roomId), roomId, c, user)
            adJoined == [adLeft EXCEPT ![c] = @ \cup {roomId}]
        IN  /\ rooms' = rs
            /\ userSessions' = MapSet(userSessions, c,
                                      [roomId |-> roomId, user |-> user])
            /\ adapter' = adJoined
            /\ sent' = userLeft
                       \o Emission(SocketEmit(c, "room-joined", GetRoomInfo(rs, roomId)))
                       \o Emission(SocketTo(adJoined, c, roomId, "user-joined", user))
    /\ handled' = Handled("join-room", c, roomId, TRUE)
    /\ UNCHANGED <<timers, now, calc>>

\* the guards every message handler starts with:
\*   const session = userSessions.get(socket.id); if (!session) return;
\*   const room = rooms.get(roomId);              if (!room) return;
HasRoom(c) == MapHas(userSessions, c) /\ MapHas(rooms, userSessions[c].roomId)

\* what a handler does when a guard returns
Return(event, c) ==
    /\ handled' = Ignored(event, c)
    /\ sent' = <<>>
    /\ UNCHANGED <<rooms, userSessions, adapter, timers, now, calc>>

\* a broadcast that names the socket in place of the session's user
OperationEventUnnamed(operation, c, session) ==
    [operation |-> operation, userId |-> c, userName |-> c]

\* { ...operation, userId: socket.id, userName: session.user.name }
OperationEvent(operation, c, session) ==
    [operation |-> operation, userId |-> c, userName |-> session.user.name]

\* a document-operation cut short after the content is written: the
\* operation is broadcast but never logged
DocumentOperationEventTorn(c, data) ==
    /\ IF HasRoom(c)
       THEN LET session == userSessions[c]
                roomId == session.roomId
                operation == DocumentOperation(data.type, data.position,
                                               data.content, data.length)
                content == ApplyOperation(rooms[roomId].document.content, operation)
                rs == [rooms EXCEPT ![roomId].document.content = content]
            IN  /\ rooms' = rs
                /\ sent' = Emission(SocketTo(adapter, c, roomId, "document-operation",
                        OperationEvent(operation, c, session)))
                /\ handled' = Handled("document-operation", c, roomId, TRUE)
                /\ UNCHANGED <<userSessions, adapter, timers, now, calc>>
       ELSE Return("document-operation", c)

\* socket.on('document-operation')
DocumentOperationEvent(c, data) ==
    /\ IF HasRoom(c)
       THEN LET session == userSessions[c]
                roomId == session.roomId
                room == rooms[roomId]
                operation == DocumentOperation(data.type, data.position,
                                               data.content, data.length)
                content == ApplyOperation(room.document.content, operation)
                rs == [rooms EXCEPT
                        ![roomId].document.content = content,
                        ![roomId].operations = Append(@, operation),
                        ![roomId].lastActivity = now]
            IN  /\ rooms' = rs
                /\ sent' = Emission(SocketTo(adapter, c, roomId, "document-operation",
                        OperationEvent(operation, c, session)))
                /\ handled' = Handled("document-operation", c, roomId, TRUE)
                /\ UNCHANGED <<userSessions, adapter, timers, now, calc>>
       ELSE Return("document-operation", c)

\* a cursor that is received and not kept
WithCursorDropped(user, cursor) == user

\* user.cursor = data.cursor
WithCursor(user, cursor) == [user EXCEPT !.cursor = cursor]

\* socket.on('cursor-position')
CursorPositionEvent(c, data) ==
    /\ IF HasRoom(c)
       THEN LET session == userSessions[c]
                roomId == session.roomId
                user == WithCursor(session.user, data.cursor)
                rs == [rooms EXCEPT ![roomId].users = MapSet(@, c, user)]
            IN  /\ rooms' = rs
                /\ userSessions' = [userSessions EXCEPT ![c].user = user]
                /\ sent' = Emission(SocketTo(adapter, c, roomId, "cursor-position",
                        [userId |-> c, userName |-> user.name,
                         color |-> user.color, cursor |-> data.cursor]))
                /\ handled' = Handled("cursor-position", c, roomId, TRUE)
                /\ UNCHANGED <<adapter, timers, now, calc>>
       ELSE Return("cursor-position", c)

\* a language that is announced while the document keeps the default one
WithLanguageDefault(document, language) ==
    [document EXCEPT !.language = DefaultLanguage]

\* room.document.language = data.language
WithLanguage(document, language) == [document EXCEPT !.language = language]

\* socket.on('language-change')
LanguageChangeEvent(c, data) ==
    /\ IF HasRoom(c)
       THEN LET roomId == userSessions[c].roomId
                rs == [rooms EXCEPT
                        ![roomId].document = WithLanguage(@, data.language),
                        ![roomId].lastActivity = now]
            IN  /\ rooms' = rs
                /\ sent' = Emission(IoTo(adapter, roomId, "language-change",
                                         [language |-> data.language]))
                /\ handled' = Handled("language-change", c, roomId, TRUE)
                /\ UNCHANGED <<userSessions, adapter, timers, now, calc>>
       ELSE Return("language-change", c)

\* a message under the name the client asked for, not the one in the session
ChatMessageAsAsked(c, user, data) ==
    [userId |-> c,
     userName |-> UserNameOf(c),
     userColor |-> user.color,
     content |-> data.message,
     timestamp |-> now]

\* const message = { ... }; the uuid is left out
ChatMessage(c, user, data) ==
    [userId |-> c,
     userName |-> user.name,
     userColor |-> user.color,
     content |-> data.message,
     timestamp |-> now]

\* socket.on('chat-message')
ChatMessageEvent(c, data) ==
    /\ IF HasRoom(c)
       THEN LET session == userSessions[c]
                roomId == session.roomId
                message == ChatMessage(c, session.user, data)
                rs == [rooms EXCEPT
                        ![roomId].chat = Append(@, message),
                        ![roomId].lastActivity = now]
            IN  /\ rooms' = rs
                /\ sent' = Emission(IoTo(adapter, roomId, "chat-message", message))
                /\ handled' = Handled("chat-message", c, roomId, TRUE)
                /\ UNCHANGED <<userSessions, adapter, timers, now, calc>>
       ELSE Return("chat-message", c)

\* the mock suggestions, one of which Math.random() picks
MockSuggestions == {"console.log", "fibonacci", "TODO"}

\* the payloads of ai-assistance the clients send
AiRequests == {[position |-> 0, context |-> "ctx"],
               [position |-> 2, context |-> "fn"]}

\* a guard that lets every socket through
HasSessionAlways(c) == TRUE

\* const session = userSessions.get(socket.id); if (!session) return;
HasSession(c) == MapHas(userSessions, c)

\* a suggestion that answers for the start of the document, whatever was asked
AiSuggestionAtStart(suggestion, data) ==
    [suggestion |-> suggestion, position |-> 0, context |-> data.context]

\* { suggestion: suggestion, position: data.position, context: data.context }
AiSuggestion(suggestion, data) ==
    [suggestion |-> suggestion, position |-> data.position,
     context |-> data.context]

\* socket.on('ai-assistance'): the handler looks up no room
AiAssistanceEvent(c, data) ==
    /\ IF HasSession(c)
       THEN \E suggestion \in MockSuggestions :
                /\ sent' = Emission(SocketEmit(c, "ai-suggestion",
                                                AiSuggestion(suggestion, data)))
                /\ handled' = Handled("ai-assistance", c, NoRoomId, TRUE)
                /\ UNCHANGED <<rooms, userSessions, adapter, timers, now, calc>>
       ELSE Return("ai-assistance", c)

\* a pending setTimeout(() => {...}, 3600000) and the roomId it closes over
Timer(roomId) == [roomId |-> roomId, due |-> now + GracePeriod]

\* "Clean up empty rooms after 1 hour": the timers after the disconnect
ScheduleCleanup(rs, roomId) ==
    IF DOMAIN rs[roomId].users = {}
    THEN timers \cup {Timer(roomId)}
    ELSE timers

\* a leave nobody is told of
UserLeftUntold(ad, c, roomId, user) == <<>>

\* socket.to(roomId).emit('user-left', user)
UserLeft(ad, c, roomId, user) ==
    Emission(SocketTo(ad, c, roomId, "user-left", user))

\* socket.on('disconnect'); socket.io has taken the socket out of its rooms
Disconnect(c) ==
    /\ adapter' = [adapter EXCEPT ![c] = {}]
    /\ IF MapHas(userSessions, c)
       THEN LET session == userSessions[c]
                roomId == session.roomId
            IN  /\ IF MapHas(rooms, roomId)
                   THEN LET rs == [rooms EXCEPT
                                    ![roomId].users = MapDelete(@, c),
                                    ![roomId].lastActivity = now]
                        IN  /\ rooms' = rs
                            /\ sent' = UserLeft(adapter', c, roomId, session.user)
                            /\ timers' = ScheduleCleanup(rs, roomId)
                   ELSE /\ sent' = <<>>
                        /\ UNCHANGED <<rooms, timers>>
                /\ userSessions' = MapDelete(userSessions, c)
                /\ handled' = Handled("disconnect", c, roomId, TRUE)
       ELSE /\ handled' = Handled("disconnect", c, NoRoomId, FALSE)
            /\ sent' = <<>>
            /\ UNCHANGED <<rooms, userSessions, timers>>
    /\ UNCHANGED <<now, calc>>

----------------------------------------------------------------------------
(* The cleanup timers and the clock *)

\* the callback without its look at the user set
CleanupDeletesPresent(rs, roomId) == MapHas(rs, roomId)

\* a callback that takes a room with one user for an empty one
CleanupDeletesLonely(rs, roomId) ==
    MapHas(rs, roomId) /\ Cardinality(DOMAIN rs[roomId].users) <= 1

\* if (rooms.has(roomId) && rooms.get(roomId).users.size === 0)
CleanupDeletes(rs, roomId) ==
    MapHas(rs, roomId) /\ DOMAIN rs[roomId].users = {}

\* a timer whose delay has passed
Due(t) == t \in timers /\ t.due <= now

\* the callback of a timer whose delay has passed
CleanupFire(t) ==
    /\ Due(t)
    /\ LET deletes == CleanupDeletes(rooms, t.roomId)
           rs == IF deletes THEN MapDelete(rooms, t.roomId) ELSE rooms
       IN  /\ rooms' = rs
           /\ handled' = Handled("cleanup", NoConn, t.roomId, deletes)
    /\ timers' = timers \ {t}
    /\ sent' = <<>>
    /\ UNCHANGED <<userSessions, adapter, now, calc>>

\* time passes; a timer whose delay has passed runs before it passes further
Tick ==
    /\ now < MaxTime
    /\ \A t \in timers : ~Due(t)
    /\ now' = now + 1
    /\ handled' = Handled("tick", NoConn, NoRoomId, TRUE)
    /\ sent' = <<>>
    /\ UNCHANGED <<rooms, userSessions, adapter, timers, calc>>

----------------------------------------------------------------------------
(* The REST endpoint *)

\* GET /api/rooms: the entries of the answer; a read, it changes nothing
RoomList(rs) ==
    {[id |-> rs[r].id,
      name |-> rs[r].name,
      userCount |-> Cardinality(DOMAIN rs[r].users),
      lastActivity |-> rs[r].lastActivity] : r \in DOMAIN rs}

\* a room id taken without a look at the directory
UnusedAlways(roomId) == TRUE

\* app.post('/api/rooms'): roomId = uuidv4() is an id nothing refers to
Unused(roomId) ==
    /\ ~MapHas(rooms, roomId)
    /\ \A t \in timers : t.roomId # roomId

\* the name each request carries in its body (<<>>: none)
RoomNameFor(roomId) == IF Len(roomId) > 8 THEN <<>> ELSE <<"d", "e", "m", "o">>

PostRoom(roomId, name) ==
    /\ Unused(roomId)
    /\ LET rs == CreateRoom(rooms, roomId,
                            IF name # <<>> THEN name ELSE DefaultRoomName(roomId))
       IN  /\ rooms' = rs
    /\ handled' = Handled("post-room", NoConn, roomId, TRUE)
    /\ sent' = <<>>
    /\ UNCHANGED <<userSessions, adapter, timers, now, calc>>

----------------------------------------------------------------------------
(* The operation model on its own *)

Units == {"a", "b"}

RECURSIVE SeqsUpTo(_)
\* the strings of at most n units
SeqsUpTo(n) ==
    IF n = 0 THEN {<<>>}
    ELSE LET shorter == SeqsUpTo(n - 1)
         IN  shorter \cup {Append(s, u) : s \in {t \in shorter : Len(t) = n - 1},
                                          u \in Units}

Contents == SeqsUpTo(MaxLen - 1)
Positions == -2 .. MaxLen + 1
Texts == {<<"x">>, <<"x", "y">>}
Lengths == 0 .. 2

\* the payloads of document-operation, over every position and length
AllOps ==
    {[type |-> "insert", position |-> p, content |-> t, length |-> 0] :
        p \in Positions, t \in Texts}
    \cup
    {[type |-> "delete", position |-> p, content |-> <<>>, length |-> n] :
        p \in Positions, n \in Lengths}

InitApply ==
    /\ Init!1 /\ Init!2 /\ Init!3 /\ Init!4 /\ Init!5 /\ Init!6 /\ Init!7
    /\ Init!8 /\ Init!9 /\ Init!11 /\ Init!12 /\ Init!13 /\ Init!14 /\ Init!15
    /\ Init!16 /\ Init!17
    /\ calc \in {[stage |-> "args", content |-> content, operation |-> data,
                  result |-> <<>>, undone |-> <<>>] :
                    content \in Contents, data \in AllOps}

\* "Apply operation to document", as the handler of document-operation does
Apply ==
    /\ calc.stage = "args"
    /\ calc' = [calc EXCEPT
            !.stage = "result",
            !.result = ApplyOperation(calc.content,
                DocumentOperation(calc.operation.type, calc.operation.position,
                                  calc.operation.content, calc.operation.length))]
    /\ UNCHANGED <<rooms, userSessions, adapter, timers, now, handled, sent,
                   emptySince, emptyDoc, inbox, applied, local, upstream,
                   downstream, users, presence>>

\* the Delete that matches an Insert, applied to what the Insert gave
Undo ==
    /\ calc.stage = "result"
    /\ calc.operation.type = "insert"
    /\ calc' = [calc EXCEPT
            !.stage = "undone",
            !.undone = ApplyOperation(calc.result,
                DocumentOperation("delete", calc.operation.position, <<>>,
                                  Len(calc.operation.content)))]
    /\ UNCHANGED <<rooms, userSessions, adapter, timers, now, handled, sent,
                   emptySince, emptyDoc, inbox, applied, local, upstream,
                   downstream, users, presence>>

SpecApply == InitApply /\ [][Apply \/ Undo]_vars

----------------------------------------------------------------------------
(* The specifications of the server *)

\* the payloads of document-operation the clients send
OpInputs ==
    {[type |-> "insert", position |-> p, content |-> <<"x">>, length |-> 0] :
        p \in {0, MaxLen + 2}}
    \cup
    {[type |-> "delete", position |-> p, content |-> <<>>, length |-> 1] :
        p \in {-1, 0}}
    \cup
    {[type |-> "replace", position |-> 0, content |-> <<"x">>, length |-> 1]}

\* the history variables belong to SpecLifecycle
NoHistory ==
    UNCHANGED <<emptySince, emptyDoc, inbox, applied, local, upstream,
                downstream, users, presence>>

History ==
    /\ emptySince' = EmptySinceAfter(rooms, rooms')
    /\ emptyDoc' = EmptyDocAfter(rooms, rooms')
    /\ UNCHANGED <<inbox, applied, local, upstream, downstream, users,
                   presence>>

\* the sockets, every message they send and the REST endpoint, within one
\* cleanup delay
Next ==
    \/ \E c \in Conns, roomId \in RoomIds :
            JoinRoom(c, roomId, UserNameOf(c)) /\ NoHistory
    \/ \E c \in Conns, data \in OpInputs :
            DocumentOperationEvent(c, data) /\ NoHistory /\ Bounded
    \/ \E c \in Conns, cursor \in Cursors :
            CursorPositionEvent(c, [cursor |-> cursor]) /\ NoHistory /\ Bounded
    \/ \E c \in Conns, language \in Languages :
            LanguageChangeEvent(c, [language |-> language]) /\ NoHistory /\ Bounded
    \/ \E c \in Conns, message \in Messages :
            ChatMessageEvent(c, [message |-> message]) /\ NoHistory /\ Bounded
    \/ \E c \in Conns, data \in AiRequests :
            AiAssistanceEvent(c, data) /\ NoHistory
    \/ \E c \in Conns : Disconnect(c) /\ NoHistory
    \/ \E roomId \in RoomIds : PostRoom(roomId, RoomNameFor(roomId)) /\ NoHistory

Spec == Init /\ [][Next]_vars

\* the one edit the clients of SpecLifecycle make
OneInsert == [type |-> "insert", position |-> 0, content |-> <<"x">>, length |-> 0]

\* rooms over time: joins, leaves, an edit, the REST endpoint, the cleanup
\* timers and the clock
NextLifecycle ==
    \/ \E c \in Conns, roomId \in RoomIds :
            JoinRoom(c, roomId, UserNameOf(c)) /\ History
    \/ \E c \in Conns : DocumentOperationEvent(c, OneInsert) /\ History /\ Bounded
    \/ \E c \in Conns : Disconnect(c) /\ History
    \/ \E roomId \in RoomIds : PostRoom(roomId, RoomNameFor(roomId)) /\ History
    \/ \E t \in timers : CleanupFire(t) /\ History
    \/ Tick /\ History

SpecLifecycle == Init /\ [][NextLifecycle]_vars

----------------------------------------------------------------------------
(* What each socket is sent, in order *)

\* the emit calls of one handler, numbered: n-th message handled, k-th emit
Stamp(emissions, n) ==
    [k \in DOMAIN emissions |->
        [event |-> emissions[k].event, to |-> emissions[k].to, n |-> n, k |-> k]]

\* those of them that go to socket c
Received(c, emissions, n) ==
    LET mine == SelectSeq(Stamp(emissions, n), LAMBDA e : c \in e.to)
    IN  [i \in DOMAIN mine |->
            [event |-> mine[i].event, n |-> mine[i].n, k |-> mine[i].k]]

\* an emit put in front of what the socket was sent before
DeliverAhead(box, stamps) == stamps \o box

\* emit writes to the socket's connection, behind what it was sent before
Deliver(box, stamps) == box \o stamps

\* the record of the deliveries; a socket that disconnects is gone, and its
\* id stands for a new connection
Delivery ==
    /\ applied < MaxEvents
    /\ applied' = applied + 1
    /\ inbox' = [c \in Conns |->
                    IF handled'.event = "disconnect" /\ handled'.conn = c
                    THEN <<>>
                    ELSE Deliver(inbox[c], Received(c, sent', applied'))]
    /\ UNCHANGED <<emptySince, emptyDoc, local, upstream, downstream, users,
                   presence>>

\* the first messages the server handles, and what they send to whom
NextOrder ==
    \/ \E c \in Conns, roomId \in RoomIds :
            JoinRoom(c, roomId, UserNameOf(c)) /\ Delivery
    \/ \E c \in Conns : DocumentOperationEvent(c, OneInsert) /\ Delivery /\ Bounded
    \/ \E c \in Conns, message \in Messages :
            ChatMessageEvent(c, [message |-> message]) /\ Delivery /\ Bounded
    \/ \E c \in Conns : Disconnect(c) /\ Delivery

SpecOrder == Init /\ [][NextOrder]_vars

----------------------------------------------------------------------------
(* transformOperation, which no handler calls *)

\* a transform of a delete without its floor at op1.position
TransformOperationUnfloored(op1, op2) ==
    IF op1.position <= op2.position /\ op1.type = "insert"
    THEN DocumentOperation(op2.type, op2.position + Len(op1.content),
                           op2.content, op2.length)
    ELSE IF op1.position <= op2.position /\ op1.type = "delete"
    THEN DocumentOperation(op2.type, op2.position - op1.length,
                           op2.content, op2.length)
    ELSE op2

\* a transform that moves an operation back over an insert
TransformOperationBackward(op1, op2) ==
    IF op1.position <= op2.position /\ op1.type = "insert"
    THEN DocumentOperation(op2.type, op2.position - Len(op1.content),
                           op2.content, op2.length)
    ELSE IF op1.position <= op2.position /\ op1.type = "delete"
    THEN DocumentOperation(op2.type,
                           Max(op2.position - op1.length, op1.position),
                           op2.content, op2.length)
    ELSE op2

\* function transformOperation(op1, op2)
TransformOperation(op1, op2) ==
    IF op1.position <= op2.position /\ op1.type = "insert"
    THEN DocumentOperation(op2.type, op2.position + Len(op1.content),
                           op2.content, op2.length)
    ELSE IF op1.position <= op2.position /\ op1.type = "delete"
    THEN DocumentOperation(op2.type,
                           Max(op2.position - op1.length, op1.position),
                           op2.content, op2.length)
    ELSE op2

\* the operations given to the transform: inserts, deletes and one of
\* another type
TransformOps ==
    {[type |-> "insert", position |-> p, content |-> t, length |-> 0] :
        p \in 0 .. MaxLen, t \in Texts}
    \cup
    {[type |-> "delete", position |-> p, content |-> <<>>, length |-> n] :
        p \in 0 .. MaxLen, n \in Lengths}
    \cup
    {[type |-> "replace", position |-> 1, content |-> <<"x">>, length |-> 1]}

InitTransform ==
    /\ Init!1 /\ Init!2 /\ Init!3 /\ Init!4 /\ Init!5 /\ Init!6 /\ Init!7
    /\ Init!8 /\ Init!9 /\ Init!11 /\ Init!12 /\ Init!13 /\ Init!14 /\ Init!15
    /\ Init!16 /\ Init!17
    /\ calc \in {[stage |-> "pair", op1 |-> op1, op2 |-> op2, result |-> op2] :
                    op1 \in TransformOps, op2 \in TransformOps}

Transform ==
    /\ calc.stage = "pair"
    /\ calc' = [calc EXCEPT !.stage = "transformed",
                            !.result = TransformOperation(calc.op1, calc.op2)]
    /\ UNCHANGED <<rooms, userSessions, adapter, timers, now, handled, sent,
                   emptySince, emptyDoc, inbox, applied, local, upstream,
                   downstream, users, presence>>

SpecTransform == InitTransform /\ [][Transform]_vars

----------------------------------------------------------------------------
(* The clients' editors: client/src/components/CodeEditor.tsx *)

MaxSyncEdits == 2   \* operations the clients send in all

\* model.getPositionAt(offset): an offset outside the text is taken to its
\* nearest end
OffsetAt(content, offset) == Max(0, Min(offset, Len(content)))

\* handleDocumentOperation: the edit pushed on the editor's model
ClientApply(content, operation) ==
    LET from == OffsetAt(content, operation.position)
        to == OffsetAt(content, operation.position + operation.length)
    IN  IF operation.type = "insert"
        THEN Slice(content, 0, from) \o operation.content \o SliceFrom(content, from)
        ELSE IF operation.type = "delete"
        THEN Slice(content, 0, from) \o SliceFrom(content, Max(from, to))
        ELSE content

\* onDidChangeModelContent: the operations a user's typing makes of a text,
\* a character typed at either end or the first character deleted
LocalEdits(content) ==
    {[type |-> "insert", position |-> p, content |-> <<"y">>, length |-> 0] :
        p \in {0, Len(content)}}
    \cup
    (IF content # <<>>
     THEN {[type |-> "delete", position |-> 0, content |-> <<>>, length |-> 1]}
     ELSE {})

\* the operations sent and not yet handled, with those in the logs
SyncEdits ==
    SumOver(Conns, [c \in Conns |-> Len(upstream[c])])
    + SumOver(DOMAIN rooms, [r \in DOMAIN rooms |-> Len(rooms[r].operations)])

NoServer ==
    UNCHANGED <<rooms, userSessions, adapter, timers, now, handled, sent, calc>>

NoRecords ==
    UNCHANGED <<emptySince, emptyDoc, inbox, applied, users, presence>>

\* a client joins a room and shows the content of the room-joined snapshot
ClientJoins(c, roomId) ==
    /\ ~MapHas(userSessions, c)
    /\ JoinRoom(c, roomId, UserNameOf(c))
    /\ local' = [local EXCEPT ![c] = rooms'[roomId].document.content]
    /\ UNCHANGED <<upstream, downstream>>
    /\ NoRecords

\* a user types: the editor changes and sends the operation
ClientEdits(c, operation) ==
    /\ MapHas(userSessions, c)
    /\ SyncEdits < MaxSyncEdits
    /\ local' = [local EXCEPT ![c] = ClientApply(@, operation)]
    /\ upstream' = [upstream EXCEPT ![c] = Append(@, operation)]
    /\ UNCHANGED downstream
    /\ NoServer
    /\ NoRecords

\* the server handles the next operation a client has sent; the broadcast is
\* on its way to the other members
ServerHandles(c) ==
    /\ upstream[c] # <<>>
    /\ DocumentOperationEvent(c, Head(upstream[c]))
    /\ upstream' = [upstream EXCEPT ![c] = Tail(@)]
    /\ downstream' = [x \in Conns |->
            IF sent' # <<>> /\ x \in sent'[1].to
            THEN Append(downstream[x], sent'[1].data.operation)
            ELSE downstream[x]]
    /\ UNCHANGED local
    /\ NoRecords

\* a client applies the next operation it was sent, and sends nothing for it:
\* the client the synchronisation of the editors is stated for
ClientReceives(c) ==
    /\ downstream[c] # <<>>
    /\ local' = [local EXCEPT ![c] = ClientApply(@, Head(downstream[c]))]
    /\ downstream' = [downstream EXCEPT ![c] = Tail(@)]
    /\ UNCHANGED upstream
    /\ NoServer
    /\ NoRecords

\* clients that edit at the same time, and the server between them
NextSync ==
    \/ \E c \in Conns, roomId \in RoomIds : ClientJoins(c, roomId)
    \/ \E c \in Conns : \E operation \in LocalEdits(local[c]) :
            ClientEdits(c, operation)
    \/ \E c \in Conns : ServerHandles(c)
    \/ \E c \in Conns : ClientReceives(c)

SpecSync == Init /\ [][NextSync]_vars

----------------------------------------------------------------------------
(* The operation model of the specification, section 4.1 *)

\* the first n units of s, and what follows them
Prefix(s, n) == [i \in 1 .. n |-> s[i]]
Suffix(s, n) == [i \in 1 .. Len(s) - n |-> s[n + i]]

RECURSIVE Without(_, _, _)
\* s without the units whose offsets lie in [from, to)
Without(s, from, to) ==
    IF s = <<>> THEN <<>>
    ELSE LET last == Len(s) - 1
             rest == Without(Prefix(s, last), from, to)
         IN  IF from <= last /\ last < to THEN rest ELSE Append(rest, s[Len(s)])

\* C2: an Insert at position >= 0 gives content[0, p) + text + content[p, end)
\* with p the position clamped to the content's length
InsertSplitsAtClampedPosition ==
    (calc.stage = "result" /\ calc.operation.type = "insert"
        /\ calc.operation.position >= 0)
    => LET p == Min(calc.operation.position, Len(calc.content))
       IN  calc.result = Prefix(calc.content, p) \o calc.operation.content
                            \o Suffix(calc.content, p)

\* an Insert beyond the end of a non-empty content has been applied
InsertBeyondEndApplied ==
    /\ calc.stage = "result"
    /\ calc.operation.type = "insert"
    /\ calc.content # <<>>
    /\ calc.operation.position > Len(calc.content)
    /\ calc.result = calc.content \o calc.operation.content

\* C3: a Delete at any integer position removes exactly the units of
\* [position, position + length) that lie in the content
DeleteRemovesClampedWindow ==
    (calc.stage = "result" /\ calc.operation.type = "delete")
    => calc.result = Without(calc.content, calc.operation.position,
                             calc.operation.position + calc.operation.length)

\* apply(document, operation) of section 4.1: offsets out of range are clamped
RuleApply(content, operation) ==
    IF operation.type = "insert"
    THEN LET p == Max(0, Min(operation.position, Len(content)))
         IN  Prefix(content, p) \o operation.content \o Suffix(content, p)
    ELSE IF operation.type = "delete"
    THEN Without(content, operation.position,
                 operation.position + operation.length)
    ELSE content

RECURSIVE Replay(_, _)
\* the operations applied one after another, in the order of the log
Replay(content, operations) ==
    IF operations = <<>> THEN content
    ELSE Replay(RuleApply(content, Head(operations)), Tail(operations))

\* C1: every room's content is the welcome text with the operations of its
\* log applied in order by the rules of section 4.1
ContentReplaysLog ==
    \A r \in DOMAIN rooms :
        rooms[r].document.content = Replay(WelcomeContent, rooms[r].operations)

----------------------------------------------------------------------------
(* Who receives what *)

\* the sockets the last handler sent `event` to
Recipients(event) ==
    UNION {sent[i].to : i \in {j \in DOMAIN sent : sent[j].event = event}}

\* the emit calls of the last handler that carried `event`
Emits(event) == Cardinality({i \in DOMAIN sent : sent[i].event = event})

Members(r) == DOMAIN rooms[r].users

\* the event a handled message makes the server send to the others
Echo(event) == IF event = "join-room" THEN "user-joined" ELSE event

\* C4: a document-operation, cursor-position or join-room reaches, once,
\* exactly the members of the room other than the socket that issued it
BroadcastExcludesSender ==
    (handled.ok /\ handled.event \in {"document-operation", "cursor-position",
                                      "join-room"})
    => /\ Recipients(Echo(handled.event)) = Members(handled.roomId) \ {handled.conn}
       /\ Emits(Echo(handled.event)) <= 1

\* a document-operation, a cursor-position and a join-room have each reached
\* another member while a socket was outside the room
OthersReached(event) ==
    /\ handled.ok
    /\ handled.event = event
    /\ Recipients(Echo(event)) # {}
    /\ handled.conn \in Members(handled.roomId)

OperationReachedOthers == OthersReached("document-operation")

\* C5: a chat-message or language-change reaches, once, exactly the members
\* of the sender's room, the sender among them
BroadcastIncludesSender ==
    (handled.ok /\ handled.event \in {"chat-message", "language-change"})
    => /\ Recipients(handled.event) = Members(handled.roomId)
       /\ handled.conn \in Recipients(handled.event)
       /\ Emits(handled.event) = 1

\* a chat-message has come back to its sender while the other socket was in
\* another room
ChatEchoedInsideRoomOnly ==
    /\ handled.ok
    /\ handled.event = "chat-message"
    /\ Recipients("chat-message") = {handled.conn}
    /\ \E c \in Conns \ {handled.conn} :
            MapHas(userSessions, c) /\ userSessions[c].roomId # handled.roomId

\* the room-joined snapshot the last join-room sent
Snapshot == sent[CHOOSE i \in DOMAIN sent : sent[i].event = "room-joined"].data

\* the chat history a snapshot carries
ChatOf(snapshot) == IF "chat" \in DOMAIN snapshot THEN snapshot.chat ELSE <<>>

\* C6: the room-joined snapshot holds the room's content, language, every
\* member (the joiner too) and the chat history at the moment of the join
SnapshotHoldsRoom ==
    (handled.event = "join-room")
    => /\ Recipients("room-joined") = {handled.conn}
       /\ Snapshot.document = rooms[handled.roomId].document
       /\ Snapshot.users = {rooms[handled.roomId].users[c] :
                                c \in Members(handled.roomId)}
       /\ ChatOf(Snapshot) = rooms[handled.roomId].chat

----------------------------------------------------------------------------
(* The life of a room *)

\* how long room r's user set has been empty
EmptyFor(r) == now - emptySince[r][1]

\* C7: a cleanup removes a room only when the room's user set has been empty
\* for a whole grace period since it last became empty
RemovedOnlyAfterFullGrace ==
    (handled.event = "cleanup" /\ handled.ok)
    => /\ emptySince[handled.roomId] # Never
       /\ EmptyFor(handled.roomId) >= GracePeriod

\* room r still stands empty although a whole grace period has gone by
Overdue(r) ==
    IsEmpty(rooms, r) /\ emptySince[r] # Never /\ EmptyFor(r) >= GracePeriod

\* the timers run and time passes
Fairness ==
    /\ WF_vars(Tick /\ History)
    /\ WF_vars(\E t \in timers : CleanupFire(t) /\ History)

SpecLifecycleFair == SpecLifecycle /\ Fairness

\* C8: a room that has stood empty for the whole grace period is eventually
\* removed, whether a disconnect, a switch of rooms or its creation left it
\* without users
EmptyRoomEventuallyRemoved ==
    \A r \in RoomIds : Overdue(r) ~> ~IsEmpty(rooms, r)

\* C9: no step removes a room that has a user: a cleanup timer deletes its
\* room only if the room is present and has no user when it fires
OccupiedRoomNeverRemoved ==
    [][\A r \in DOMAIN rooms :
            r \notin DOMAIN rooms' =>
                /\ DOMAIN rooms[r].users = {}
                /\ handled'.event = "cleanup"
                /\ handled'.roomId = r]_vars

\* a cleanup timer has fired on a room that a user had joined again, and
\* left the room in place
TimerSparedOccupiedRoom ==
    /\ handled.event = "cleanup"
    /\ ~handled.ok
    /\ IsOccupied(rooms, handled.roomId)

\* C10: a join that comes less than a grace period after the room's last user
\* left finds the document and the chat log the room had when it became empty
RejoinFindsSameRoom ==
    LET r == handled.roomId
    IN  (/\ handled.event = "join-room"
         /\ Members(r) = {handled.conn}
         /\ emptyDoc[r].left
         /\ emptySince[r] # Never
         /\ EmptyFor(r) < GracePeriod)
        => /\ rooms[r].document = emptyDoc[r].document
           /\ rooms[r].chat = emptyDoc[r].chat

----------------------------------------------------------------------------
(* Sessions and room switches *)

\* the rooms whose user set holds socket c
RoomsOf(rs, c) == {r \in DOMAIN rs : c \in DOMAIN rs[r].users}

\* C11: a join-room from a socket that has a session takes the socket out of
\* the previous room's user set, tells that room's remaining members with a
\* user-left sent before anything else, and leaves the socket a member of
\* the target room only
SwitchLeavesThenJoins ==
    [][\A c \in Conns :
        (handled'.event = "join-room" /\ handled'.conn = c
            /\ MapHas(userSessions, c))
        => LET prev == userSessions[c].roomId
               target == handled'.roomId
               remaining == IF MapHas(rooms, prev)
                            THEN DOMAIN rooms[prev].users \ {c} ELSE {}
           IN  /\ (MapHas(rooms, prev) /\ prev # target)
                    => c \notin DOMAIN rooms'[prev].users
               /\ remaining # {}
                    => /\ sent'[1].event = "user-left"
                       /\ sent'[1].to = remaining
                       /\ sent'[1].data = userSessions[c].user
               /\ \A i \in DOMAIN sent' :
                    sent'[i].event = "user-left" => i = 1
               /\ RoomsOf(rooms', c) = {target}]_vars

\* a socket has gone from a room with another member to a different room
SwitchAnnounced ==
    /\ handled.event = "join-room"
    /\ Len(sent) >= 2
    /\ sent[1].event = "user-left"
    /\ sent[1].to # {}
    /\ \A c \in sent[1].to : userSessions[c].roomId # handled.roomId
    /\ sent[2].event = "room-joined"

\* C12: a room that the leave of its last member has emptied, by disconnect
\* or by a switch of rooms, has a cleanup pending, due one grace period after
\* the leave
LeaveSchedulesCleanup ==
    \A r \in RoomIds :
        (IsEmpty(rooms, r) /\ emptyDoc[r].left /\ emptySince[r] # Never)
        => [roomId |-> r, due |-> emptySince[r][1] + GracePeriod] \in timers

\* C13: a join-room for an id the directory does not hold creates one room
\* with the welcome content and the default language; a join-room for an id
\* it holds adds the socket to that room's user set and leaves the room's
\* document, operation log, chat log and other users as they were
JoinCreatesOnce ==
    [][\A r \in RoomIds :
        (handled'.event = "join-room" /\ handled'.roomId = r)
        => LET c == handled'.conn
           IN  /\ DOMAIN rooms' = DOMAIN rooms \cup {r}
               /\ IF MapHas(rooms, r)
                  THEN /\ rooms'[r].document = rooms[r].document
                       /\ rooms'[r].operations = rooms[r].operations
                       /\ rooms'[r].chat = rooms[r].chat
                       /\ DOMAIN rooms'[r].users = DOMAIN rooms[r].users \cup {c}
                       /\ \A x \in DOMAIN rooms[r].users \ {c} :
                            rooms'[r].users[x] = rooms[r].users[x]
                  ELSE /\ rooms'[r].document = [content |-> WelcomeContent,
                                                language |-> DefaultLanguage]
                       /\ rooms'[r].operations = <<>>
                       /\ rooms'[r].chat = <<>>
                       /\ DOMAIN rooms'[r].users = {c}]_vars

\* a second socket has joined a room that the first had created and edited,
\* and both are in its user set
SecondJoinKeptRoom ==
    /\ handled.event = "join-room"
    /\ Members(handled.roomId) = Conns
    /\ rooms[handled.roomId].operations # <<>>
    /\ rooms[handled.roomId].document.content # WelcomeContent

\* the messages a socket sends once it has joined
MessageEvents == {"document-operation", "cursor-position", "language-change",
                  "chat-message", "ai-assistance"}

\* C14: a message from a socket that has no session changes no room, no
\* presence, no session, schedules nothing and sends no event
NoSessionNoEffect ==
    [][(handled'.event \in MessageEvents /\ ~MapHas(userSessions, handled'.conn))
        => /\ rooms' = rooms
           /\ userSessions' = userSessions
           /\ adapter' = adapter
           /\ timers' = timers
           /\ sent' = <<>>]_vars

\* a message has come from a socket that had disconnected while the other
\* socket was still in the room
StrangerIgnored ==
    /\ handled.event \in MessageEvents
    /\ ~handled.ok
    /\ ~MapHas(userSessions, handled.conn)
    /\ \E r \in DOMAIN rooms :
            /\ Members(r) # {}
            /\ \E i \in DOMAIN rooms[r].chat :
                    rooms[r].chat[i].userId = handled.conn

\* the types of operation the protocol knows
OperationTypes == {"insert", "delete"}

\* C15: a document-operation whose type is neither insert nor delete is
\* dropped: it reaches no room's operation log and no other member
MalformedDropped ==
    /\ \A r \in DOMAIN rooms :
            \A i \in DOMAIN rooms[r].operations :
                rooms[r].operations[i].type \in OperationTypes
    /\ \A i \in DOMAIN sent :
            sent[i].event = "document-operation"
                => sent[i].data.operation.type \in OperationTypes

----------------------------------------------------------------------------
(* Order of delivery *)

\* stamp a was emitted before stamp b
Before(a, b) == a.n < b.n \/ (a.n = b.n /\ a.k < b.k)

----------------------------------------------------------------------------
(* Whole handlers *)

Last(seq) == seq[Len(seq)]

\* the data of the one emit of the last handler (none: the empty record)
Emitted(emissions) == IF emissions = <<>> THEN <<>> ELSE emissions[1].data

----------------------------------------------------------------------------
(* Rooms apart *)

\* the requests that change a room
RoomMutations == {"document-operation", "cursor-position", "language-change",
                  "chat-message"}

\* C18: a document-operation, cursor-position, language-change or
\* chat-message handled for a socket in room R leaves every other room as it
\* was and sends events to members of R only
RoomsIndependent ==
    [][(handled'.ok /\ handled'.event \in RoomMutations)
        => LET R == handled'.roomId
           IN  /\ DOMAIN rooms' = DOMAIN rooms
               /\ \A r \in DOMAIN rooms \ {R} : rooms'[r] = rooms[r]
               /\ \A i \in DOMAIN sent' :
                    sent'[i].to \subseteq DOMAIN rooms[R].users]_vars

\* the language of one room has been changed while the other room, with a
\* member of its own, kept the default
LanguageChangedInOneRoom ==
    /\ handled.ok
    /\ handled.event = "language-change"
    /\ rooms[handled.roomId].document.language # DefaultLanguage
    /\ \E r \in DOMAIN rooms \ {handled.roomId} :
            /\ Members(r) # {}
            /\ rooms[r].document.language = DefaultLanguage

----------------------------------------------------------------------------
(* Sessions *)

\* C19: a socket with a session is in the user set of its session's room and
\* of no other room; a socket without one, and so every socket whose
\* disconnect has been handled, is in no room's user set
OneSessionPerConnection ==
    /\ \A c \in Conns :
            RoomsOf(rooms, c) = IF MapHas(userSessions, c)
                                THEN {userSessions[c].roomId}
                                ELSE {}
    /\ handled.event = "disconnect"
            => /\ ~MapHas(userSessions, handled.conn)
               /\ RoomsOf(rooms, handled.conn) = {}

\* a socket that had switched rooms has disconnected and left the other
\* socket in the room they shared
DisconnectedFromSharedRoom ==
    /\ handled.event = "disconnect"
    /\ handled.ok
    /\ Members(handled.roomId) = Conns \ {handled.conn}
    /\ Cardinality(DOMAIN rooms) = Cardinality(RoomIds)

----------------------------------------------------------------------------
(* lastActivity *)

\* a room with its lastActivity set aside
ButLastActivity(room) == [room EXCEPT !.lastActivity = 0]

\* C20: every event that changes a room (a join, an operation, a member
\* leaving by disconnect or by a switch of rooms) sets the room's
\* lastActivity to the time of the event
MutationAdvancesLastActivity ==
    [][\A r \in DOMAIN rooms \cap DOMAIN rooms' :
            ButLastActivity(rooms'[r]) # ButLastActivity(rooms[r])
                => rooms'[r].lastActivity = now']_vars

----------------------------------------------------------------------------
(* The editors and the room *)

\* nothing is on its way between the clients and the server
Quiet == \A c \in Conns : upstream[c] = <<>> /\ downstream[c] = <<>>

\* C21: once every operation sent has been handled and every broadcast
\* applied, each member's editor shows the content of its room
EditorsConverge ==
    Quiet => \A c \in DOMAIN userSessions :
                local[c] = rooms[userSessions[c].roomId].document.content

----------------------------------------------------------------------------
(* Insert and Delete *)

\* the Insert went into the content, at an offset from 0 to its length
InsertInside ==
    /\ calc.operation.position >= 0
    /\ calc.operation.position <= Len(calc.content)

\* C22 as stated: for every content, position and text, Insert followed by
\* the Delete of the same position and length gives the content back
InsertDeleteRoundTrip ==
    calc.stage = "undone" => calc.undone = calc.content

\* C22: for every content, every text and every position from 0 to the
\* length of the content, Insert followed by the Delete of the same position
\* and length gives the content back
InsertDeleteRoundTripInside ==
    (calc.stage = "undone" /\ InsertInside) => calc.undone = calc.content

\* a text put strictly inside a content has been taken out again
InsertUndoneInside ==
    /\ calc.stage = "undone"
    /\ calc.operation.position > 0
    /\ calc.operation.position < Len(calc.content)
    /\ Len(calc.operation.content) > 1
    /\ calc.result # calc.content
    /\ calc.undone = calc.content

----------------------------------------------------------------------------
(* createRoom *)

\* 'Room ' and the first 8 characters of the id
RoomPrefixName(r) == <<"R", "o", "o", "m", " ">> \o Prefix(r, Min(8, Len(r)))

\* C23: a join-room or a create-room request leaves the document, operation
\* log and chat log of every room in the directory as they are and touches
\* no user but the one that joins or leaves; a room that enters the directory
\* has the welcome text, the default language, no operations, no chat, no
\* user but the one that joined, and the name 'Room ' plus the first 8
\* characters of its id unless the request gave a name
CreateRoomNeverReplaces ==
    [][handled'.event \in {"join-room", "post-room"}
        => LET c == handled'.conn
               joins == handled'.event = "join-room"
           IN  /\ DOMAIN rooms \subseteq DOMAIN rooms'
               /\ \A r \in DOMAIN rooms :
                    /\ rooms'[r].document = rooms[r].document
                    /\ rooms'[r].operations = rooms[r].operations
                    /\ rooms'[r].chat = rooms[r].chat
                    /\ rooms'[r].name = rooms[r].name
                    /\ DOMAIN rooms'[r].users \ {c} = DOMAIN rooms[r].users \ {c}
               /\ \A r \in DOMAIN rooms' \ DOMAIN rooms :
                    /\ r = handled'.roomId
                    /\ rooms'[r].document = [content |-> WelcomeContent,
                                             language |-> DefaultLanguage]
                    /\ rooms'[r].operations = <<>>
                    /\ rooms'[r].chat = <<>>
                    /\ DOMAIN rooms'[r].users = IF joins THEN {c} ELSE {}
                    /\ rooms'[r].name =
                            IF ~joins /\ RoomNameFor(r) # <<>>
                            THEN RoomNameFor(r)
                            ELSE RoomPrefixName(r)]_vars

\* a create-room request without a name has made a room named after its id
\* while the other room, edited and with a member, stayed as it was
RoomCreatedBesideEditedRoom ==
    /\ handled.event = "post-room"
    /\ RoomNameFor(handled.roomId) = <<>>
    /\ Len(handled.roomId) > 8
    /\ rooms[handled.roomId].name = RoomPrefixName(handled.roomId)
    /\ \E r \in DOMAIN rooms \ {handled.roomId} :
            /\ Members(r) # {}
            /\ rooms[r].operations # <<>>

----------------------------------------------------------------------------
(* transformOperation *)

\* C24: transformOperation(A, B) has B's type, content and length; its
\* position is B's plus the length of A's text when A is an insert at or
\* before B, B's less min(A.length, B.position - A.position) when A is a
\* delete at or before B, and B's when A lies after B
TransformShiftsPosition ==
    calc.stage = "transformed"
    => LET A == calc.op1
           B == calc.op2
           T == calc.result
       IN  /\ T.type = B.type /\ T.content = B.content /\ T.length = B.length
           /\ (A.type = "insert" /\ A.position <= B.position)
                => T.position = B.position + Len(A.content)
           /\ (A.type = "delete" /\ A.position <= B.position)
                => /\ T.position
                        = B.position - Min(A.length, B.position - A.position)
                   /\ T.position >= A.position
           /\ A.position > B.position => T = B

\* an operation has been moved back over a delete that reached past it, and
\* stopped at the delete's position
TransformStoppedAtDelete ==
    /\ calc.stage = "transformed"
    /\ calc.op1.type = "delete"
    /\ calc.op1.position < calc.op2.position
    /\ calc.op1.length > calc.op2.position - calc.op1.position
    /\ calc.result.position = calc.op1.position

----------------------------------------------------------------------------
(* Operations as sent *)

\* the type, position, content and length of an operation
Fields(operation) ==
    [type |-> operation.type, position |-> operation.position,
     content |-> operation.content, length |-> operation.length]

\* C25: the server applies, logs and broadcasts every operation with the
\* type, position, content and length the client sent, whatever the room
\* applied before
OperationHandledAsSent ==
    [][\A c \in Conns :
        (/\ upstream[c] # <<>>
         /\ upstream'[c] = Tail(upstream[c])
         /\ handled'.event = "document-operation"
         /\ handled'.conn = c
         /\ handled'.ok)
        => LET r == handled'.roomId
               data == Head(upstream[c])
           IN  /\ Len(rooms'[r].operations) = Len(rooms[r].operations) + 1
               /\ Fields(Last(rooms'[r].operations)) = Fields(data)
               /\ rooms'[r].document.content
                    = ApplyOperation(rooms[r].document.content, data)
               /\ sent' # <<>> => Fields(Emitted(sent').operation) = Fields(data)]_vars

\* an operation sent for an offset at or after an insert the room had
\* applied before has been logged and broadcast at the offset it was sent for
LaterOperationNotShifted ==
    /\ handled.event = "document-operation"
    /\ handled.ok
    /\ sent # <<>>
    /\ LET log == rooms[handled.roomId].operations
       IN  /\ Len(log) = 2
           /\ log[1].type = "insert"
           /\ log[1].position <= log[2].position
           /\ Emitted(sent).operation = log[2]
           /\ local[handled.conn] # rooms[handled.roomId].document.content

----------------------------------------------------------------------------
(* The operation log *)

\* sequence s is the beginning of sequence t
IsPrefix(s, t) == Len(s) <= Len(t) /\ \A i \in DOMAIN s : s[i] = t[i]

----------------------------------------------------------------------------
(* Cursors *)

\* C27: a handled cursor-position leaves the sender's user with the cursor
\* sent, the one broadcast to the others, and leaves the document, the
\* operation log, the chat log and every other user as they were; a user
\* that joins starts at line 0, column 0
CursorOverwritesOwnOnly ==
    [][/\ (handled'.event = "cursor-position" /\ handled'.ok)
            => LET c == handled'.conn
                   r == handled'.roomId
               IN  /\ rooms'[r].users[c].cursor \in Cursors
                   /\ sent' # <<>>
                        => rooms'[r].users[c].cursor = Emitted(sent').cursor
                   /\ [rooms'[r].users[c] EXCEPT !.cursor = Origin]
                        = [rooms[r].users[c] EXCEPT !.cursor = Origin]
                   /\ DOMAIN rooms'[r].users = DOMAIN rooms[r].users
                   /\ \A x \in DOMAIN rooms[r].users \ {c} :
                        rooms'[r].users[x] = rooms[r].users[x]
                   /\ rooms'[r].document = rooms[r].document
                   /\ rooms'[r].operations = rooms[r].operations
                   /\ rooms'[r].chat = rooms[r].chat
       /\ handled'.event = "join-room"
            => rooms'[handled'.roomId].users[handled'.conn].cursor = Origin]_vars

\* a socket has moved its cursor while the other member's stayed at the
\* origin, and the other member was told
CursorMovedBesideOther ==
    /\ handled.event = "cursor-position"
    /\ handled.ok
    /\ sent # <<>>
    /\ LET present == rooms[handled.roomId].users
       IN  /\ present[handled.conn].cursor # Origin
           /\ present[handled.conn].cursor = Emitted(sent).cursor
           /\ \E x \in DOMAIN present \ {handled.conn} :
                    present[x].cursor = Origin

----------------------------------------------------------------------------
(* The language *)

\* the room-joined snapshot among the emissions of a join-room
SnapshotIn(emissions) ==
    emissions[CHOOSE i \in DOMAIN emissions :
                emissions[i].event = "room-joined"].data

\* C28: a handled language-change leaves the room's document with the
\* language sent and leaves the content, the operation log, the chat log and
\* the user set as they were; no other step changes a room's language, and
\* the snapshot of a join shows the language the room holds
LanguageOverwritesOnly ==
    [][/\ (handled'.event = "language-change" /\ handled'.ok)
            => LET r == handled'.roomId
               IN  /\ sent' # <<>>
                   /\ rooms'[r].document.language = Emitted(sent').language
                   /\ rooms'[r].document.content = rooms[r].document.content
                   /\ rooms'[r].operations = rooms[r].operations
                   /\ rooms'[r].chat = rooms[r].chat
                   /\ rooms'[r].users = rooms[r].users
       /\ \A r \in DOMAIN rooms \cap DOMAIN rooms' :
            rooms'[r].document.language # rooms[r].document.language
                => /\ handled'.event = "language-change"
                   /\ handled'.ok
                   /\ handled'.roomId = r
       /\ handled'.event = "join-room"
            => SnapshotIn(sent').document.language
                    = rooms'[handled'.roomId].document.language]_vars

\* a socket has joined beside a member of a room whose language had been
\* changed, and its snapshot showed the changed language
JoinerSawChangedLanguage ==
    /\ handled.event = "join-room"
    /\ SnapshotIn(sent).document.language # DefaultLanguage
    /\ Members(handled.roomId) \ {handled.conn} # {}

----------------------------------------------------------------------------
(* The chat log *)

MaxChat == 2        \* chat messages the rooms hold together, in SpecChat

\* the messages the rooms hold together
ChatLength(rs) == SumOver(DOMAIN rs, [r \in DOMAIN rs |-> Len(rs[r].chat)])

\* sockets that join, talk, change the language and leave
NextChat ==
    \/ \E c \in Conns, roomId \in RoomIds :
            JoinRoom(c, roomId, UserNameOf(c)) /\ NoHistory
    \/ \E c \in Conns, message \in Messages :
            /\ ChatMessageEvent(c, [message |-> message])
            /\ ChatLength(rooms') <= MaxChat
            /\ NoHistory
    \/ \E c \in Conns, language \in Languages :
            LanguageChangeEvent(c, [language |-> language]) /\ NoHistory
    \/ \E c \in Conns : Disconnect(c) /\ NoHistory

SpecChat == Init /\ [][NextChat]_vars

\* C29: every step leaves a room's chat log a prefix of what it becomes; a
\* handled chat-message grows the log of the sender's room by one message,
\* the one broadcast, with the sender's connection id and the name and
\* color of its session; no other step grows it
ChatAppendOnly ==
    [][\A r \in DOMAIN rooms \cap DOMAIN rooms' :
        LET handles == /\ handled'.event = "chat-message"
                       /\ handled'.ok
                       /\ handled'.roomId = r
        IN  /\ IsPrefix(rooms[r].chat, rooms'[r].chat)
            /\ Len(rooms'[r].chat)
                = Len(rooms[r].chat) + (IF handles THEN 1 ELSE 0)
            /\ handles
                => LET message == Last(rooms'[r].chat)
                       user == userSessions[handled'.conn].user
                   IN  /\ message.userId = handled'.conn
                       /\ message.userName = user.name
                       /\ message.userColor = user.color
                       /\ message.content \in Messages
                       /\ message = Emitted(sent')]_vars

\* a socket under a drawn name has added its message after the other
\* socket's message
SecondMessageAppended ==
    /\ handled.event = "chat-message"
    /\ handled.ok
    /\ LET chat == rooms[handled.roomId].chat
       IN  /\ Len(chat) = 2
           /\ chat[1].userId # handled.conn
           /\ chat[2].userId = handled.conn
           /\ chat[2].userName \in RandomNames

----------------------------------------------------------------------------
(* Disconnect *)

\* C30: the disconnect of a socket with a session takes its user out of its
\* room's user set and its session out of the sessions, leaves every other
\* user and session as it was, and emits user-left with that user once, to
\* the members that remain and to no one else; the disconnect of a socket
\* without a session changes no room, session or timer and emits nothing
DisconnectLeavesAndAnnounces ==
    [][handled'.event = "disconnect"
        => LET c == handled'.conn
           IN  IF MapHas(userSessions, c)
               THEN LET r == userSessions[c].roomId
                        remaining == DOMAIN rooms[r].users \ {c}
                    IN  /\ handled'.ok
                        /\ MapHas(rooms, r) /\ MapHas(rooms', r)
                        /\ DOMAIN rooms'[r].users = remaining
                        /\ \A x \in remaining :
                                rooms'[r].users[x] = rooms[r].users[x]
                        /\ DOMAIN userSessions' = DOMAIN userSessions \ {c}
                        /\ \A x \in DOMAIN userSessions' :
                                userSessions'[x] = userSessions[x]
                        /\ \A q \in DOMAIN rooms \ {r} :
                                MapHas(rooms', q) /\ rooms'[q] = rooms[q]
                        /\ IF remaining = {}
                           THEN sent' = <<>>
                           ELSE /\ Len(sent') = 1
                                /\ sent'[1].event = "user-left"
                                /\ sent'[1].data = userSessions[c].user
                                /\ sent'[1].to = remaining
               ELSE /\ ~handled'.ok
                    /\ sent' = <<>>
                    /\ UNCHANGED <<rooms, userSessions, timers>>]_vars

\* a socket has disconnected from a room where the other socket stays, which
\* alone was told
LeftMemberBehind ==
    /\ handled.event = "disconnect"
    /\ handled.ok
    /\ ~MapHas(userSessions, handled.conn)
    /\ Members(handled.roomId) = Conns \ {handled.conn}
    /\ Len(sent) = 1
    /\ sent[1].event = "user-left"
    /\ sent[1].data.id = handled.conn
    /\ sent[1].to = Conns \ {handled.conn}

----------------------------------------------------------------------------
(* AI assistance *)

\* C31: an ai-assistance request of a socket with a session emits one
\* ai-suggestion, to that socket alone, with one of the mock suggestions and
\* the position and context of a request, and leaves the rooms, the
\* sessions, the socket.io rooms and the timers as they were
AiAnswersRequesterOnly ==
    [][(handled'.event = "ai-assistance" /\ MapHas(userSessions, handled'.conn))
        => /\ handled'.ok
           /\ Len(sent') = 1
           /\ sent'[1].event = "ai-suggestion"
           /\ sent'[1].to = {handled'.conn}
           /\ sent'[1].data.suggestion \in MockSuggestions
           /\ [position |-> sent'[1].data.position,
               context |-> sent'[1].data.context] \in AiRequests
           /\ UNCHANGED <<rooms, userSessions, adapter, timers>>]_vars

\* a socket that shares its room with the other socket has been answered
\* alone, for a position inside the document
AiAnsweredBesideMember ==
    /\ handled.event = "ai-assistance"
    /\ handled.ok
    /\ Recipients("ai-suggestion") = {handled.conn}
    /\ sent[1].data.position # 0
    /\ \E r \in DOMAIN rooms : Members(r) = Conns

----------------------------------------------------------------------------
(* Sessions and presence *)

\* the sockets whose session points at room r
SessionsAt(r) ==
    {c \in DOMAIN userSessions : userSessions[c].roomId = r}

\* C32: a socket has a session (r, u) exactly when room r is in the
\* directory and r's user set holds u under the socket's id; a socket is in
\* the user set of at most one room, and the userCount GET /api/rooms gives
\* for a room is the number of sessions that point at it
SessionMatchesPresence ==
    /\ \A c \in DOMAIN userSessions :
            LET session == userSessions[c]
            IN  /\ MapHas(rooms, session.roomId)
                /\ MapHas(rooms[session.roomId].users, c)
                /\ rooms[session.roomId].users[c] = session.user
    /\ \A r \in DOMAIN rooms : Members(r) = SessionsAt(r)
    /\ \A c \in Conns : Cardinality(RoomsOf(rooms, c)) <= 1
    /\ \A entry \in RoomList(rooms) :
            entry.userCount = Cardinality(SessionsAt(entry.id))

\* a cleanup has removed a room that both sockets had left, while both held
\* sessions in one room that stands
SessionsOutlivedCleanup ==
    /\ handled.event = "cleanup"
    /\ handled.ok
    /\ DOMAIN userSessions = Conns
    /\ \E entry \in RoomList(rooms) : entry.userCount = Cardinality(Conns)

----------------------------------------------------------------------------
(* The room of a session *)

\* the handlers that look up the session's room before they change it
RoomGuarded ==
    {"document-operation", "cursor-position", "language-change", "chat-message"}

\* C33: the room a session points at is in the directory; a cleanup that
\* removes a room removes one no session points at; and a handler that looks
\* up the session's room returns early only for a socket without a session
SessionRoomPresent ==
    /\ \A c \in DOMAIN userSessions : MapHas(rooms, userSessions[c].roomId)
    /\ (handled.event = "cleanup" /\ handled.ok)
            => SessionsAt(handled.roomId) = {}
    /\ (handled.event \in RoomGuarded /\ ~handled.ok)
            => ~MapHas(userSessions, handled.conn)

\* a timer set when a room stood empty has fired after a socket came back
\* and edited there, and the room of that session stands
CleanupSparedSessionRoom ==
    /\ handled.event = "cleanup"
    /\ ~handled.ok
    /\ SessionsAt(handled.roomId) # {}
    /\ MapHas(rooms, handled.roomId)
    /\ rooms[handled.roomId].operations # <<>>

----------------------------------------------------------------------------
(* What an operation does to the length of the content *)

\* C34: whatever the integer position, the content after an Insert of text t
\* is as long as the content and t together, and it is the content with t
\* put in at one place: taking t out there gives the content back
InsertKeepsText ==
    (calc.stage = "result" /\ calc.operation.type = "insert")
    => /\ Len(calc.result) = Len(calc.content) + Len(calc.operation.content)
       /\ \E k \in 0 .. Len(calc.content) :
            /\ calc.result = Prefix(calc.content, k) \o calc.operation.content
                                \o Suffix(calc.content, k)
            /\ Without(calc.result, k, k + Len(calc.operation.content))
                    = calc.content

\* a text has been inserted at a negative position, counted from the end,
\* inside a content
InsertedFromTheEnd ==
    /\ calc.stage = "result"
    /\ calc.operation.type = "insert"
    /\ calc.operation.position < 0
    /\ Len(calc.content) > -calc.operation.position
    /\ Len(calc.result) = Len(calc.content) + Len(calc.operation.content)
    /\ calc.result # calc.content \o calc.operation.content
    /\ calc.result # calc.operation.content \o calc.content

\* C35: whatever the position and the length of a Delete, the content after
\* it is no longer than before, and it is the content without one run of
\* adjacent units
DeleteNeverGrows ==
    (calc.stage = "result" /\ calc.operation.type = "delete")
    => /\ Len(calc.result) <= Len(calc.content)
       /\ \E from \in 0 .. Len(calc.content) :
            \E to \in from .. Len(calc.content) :
                calc.result = Without(calc.content, from, to)

----------------------------------------------------------------------------
(* The clients' user lists: client/src/App.tsx *)

MaxPending == 2     \* events a client has been sent and has not yet handled

RECURSIVE AsArray(_)
\* Array.from(room.users.values()): the users of a snapshot, one after another
AsArray(S) ==
    IF S = {} THEN <<>>
    ELSE LET u == CHOOSE x \in S : TRUE
         IN  <<u>> \o AsArray(S \ {u})

\* the events the user list listens to
PresenceEvents == {"room-joined", "user-joined", "user-left"}

\* those of the emitted events that go to socket c, in the order of the emits
PresenceFor(c, emissions) ==
    LET mine == SelectSeq(emissions,
                          LAMBDA e : c \in e.to /\ e.event \in PresenceEvents)
    IN  [i \in DOMAIN mine |-> [event |-> mine[i].event, data |-> mine[i].data]]

\* a user-left that leaves the list as it is
OnUserLeftKeeps(prev, user) == prev

\* onRoomJoined: setUsers(room.users)
OnRoomJoined(room) == AsArray(room.users)

\* onUserJoined: setUsers(prev => [...prev, user])
OnUserJoined(prev, user) == Append(prev, user)

\* onUserLeft: setUsers(prev => prev.filter(u => u.id !== user.id))
OnUserLeft(prev, user) == SelectSeq(prev, LAMBDA u : u.id # user.id)

\* what the server emits is on its way to the clients
Emitting(leaving) ==
    /\ presence' = [c \in Conns |->
            IF c \in leaving THEN <<>>
            ELSE presence[c] \o PresenceFor(c, sent')]
    /\ \A c \in Conns : Len(presence'[c]) <= MaxPending
    /\ UNCHANGED <<emptySince, emptyDoc, inbox, applied, local, upstream,
                   downstream>>

\* a client joins a room, from the room selector or from another room
UserJoins(c, roomId) ==
    /\ JoinRoom(c, roomId, UserNameOf(c))
    /\ Emitting({})
    /\ UNCHANGED users

\* handleLeaveRoom: the client closes its socket and empties its list; the
\* server handles the disconnect
UserLeaves(c) ==
    /\ Disconnect(c)
    /\ Emitting({c})
    /\ users' = [users EXCEPT ![c] = <<>>]

\* a client handles the next event it was sent
UserListHandles(c) ==
    /\ presence[c] # <<>>
    /\ LET e == Head(presence[c])
       IN  users' = [users EXCEPT ![c] =
                IF e.event = "room-joined" THEN OnRoomJoined(e.data)
                ELSE IF e.event = "user-joined" THEN OnUserJoined(@, e.data)
                ELSE OnUserLeft(@, e.data)]
    /\ presence' = [presence EXCEPT ![c] = Tail(@)]
    /\ NoServer
    /\ UNCHANGED <<emptySince, emptyDoc, inbox, applied, local, upstream,
                   downstream>>

\* clients that come and go, and their user lists
NextPresence ==
    \/ \E c \in Conns, roomId \in RoomIds : UserJoins(c, roomId)
    \/ \E c \in Conns : UserLeaves(c)
    \/ \E c \in Conns : UserListHandles(c)

SpecPresence == Init /\ [][NextPresence]_vars

\* the ids in a client's list
Listed(c) == {users[c][i].id : i \in DOMAIN users[c]}

----------------------------------------------------------------------------
(* The change listener and the remote operations: CodeEditor.tsx *)

\* isProcessingRemoteChange as the change listener reads it: the listener is
\* registered when the editor mounts and closes over the state of that
\* render, useState(false); setIsProcessingRemoteChange gives a later
\* render another value and leaves this one as it is
IsProcessingRemoteChange == FALSE

\* onDidChangeModelContent for the change that `operation`, applied by
\* handleDocumentOperation, makes of `content`: the operations it sends. An
\* edit that changes nothing raises no event
OnDidChangeModelContent(content, operation) ==
    LET from == OffsetAt(content, operation.position)
        to == OffsetAt(content, operation.position + operation.length)
    IN  IF IsProcessingRemoteChange \/ ClientApply(content, operation) = content
        THEN <<>>
        ELSE IF operation.type = "insert"
        THEN <<[type |-> "insert", position |-> from,
                content |-> operation.content, length |-> 0]>>
        ELSE <<[type |-> "delete", position |-> from,
                content |-> <<>>, length |-> to - from]>>

\* handleDocumentOperation: the client applies the next operation it was
\* sent; pushEditOperations raises the change event before it returns
HandleDocumentOperation(c) ==
    /\ downstream[c] # <<>>
    /\ LET operation == Head(downstream[c])
           echo == OnDidChangeModelContent(local[c], operation)
       IN  /\ SyncEdits + Len(echo) <= MaxSyncEdits
           /\ local' = [local EXCEPT ![c] = ClientApply(@, operation)]
           /\ upstream' = [upstream EXCEPT ![c] = @ \o echo]
    /\ downstream' = [downstream EXCEPT ![c] = Tail(@)]
    /\ NoServer
    /\ NoRecords

\* the clients as they are, and the server between them
NextEcho ==
    \/ \E c \in Conns, roomId \in RoomIds : ClientJoins(c, roomId)
    \/ \E c \in Conns : \E operation \in LocalEdits(local[c]) :
            ClientEdits(c, operation)
    \/ \E c \in Conns : ServerHandles(c)
    \/ \E c \in Conns : HandleDocumentOperation(c)

SpecEcho == Init /\ [][NextEcho]_vars

\* C37: a client that applies an operation it received sends no operation
\* to the server for the change
RemoteChangeNotSent ==
    [][\A c \in Conns :
        (/\ downstream[c] # <<>>
         /\ downstream'[c] = Tail(downstream[c])
         /\ local'[c] = ClientApply(local[c], Head(downstream[c])))
        => upstream'[c] = upstream[c]]_vars

----------------------------------------------------------------------------
(* The position transformOperation gives *)

\* C38: for operations A and B with positions and lengths of 0 or more, the
\* position of transformOperation(A, B) is 0 or more; it lies from
\* A.position to B.position when A is a delete at or before B, and it is
\* B.position or more when A is an insert
TransformedPositionInRange ==
    (/\ calc.stage = "transformed"
     /\ calc.op1.position >= 0 /\ calc.op1.length >= 0
     /\ calc.op2.position >= 0 /\ calc.op2.length >= 0)
    => LET A == calc.op1
           B == calc.op2
           T == calc.result
       IN  /\ T.position >= 0
           /\ (A.type = "delete" /\ A.position <= B.position)
                => (A.position <= T.position /\ T.position <= B.position)
           /\ A.type = "insert" => T.position >= B.position

\* an operation has been moved back over a delete that ended before it, to
\* a position strictly between the delete's and its own
TransformedBetween ==
    /\ calc.stage = "transformed"
    /\ calc.op1.type = "delete"
    /\ calc.op1.position < calc.result.position
    /\ calc.result.position < calc.op2.position

====
